---- MODULE Spec2Model ----
(***************************************************************************)
(* multiprocesser.py: a driver creates a multiprocessing.Pool, maps fun    *)
(* (which returns the pid of the process executing it) over range(N),      *)
(* leaves the with block, and prints the distinct pids it collected.       *)
(*                                                                         *)
(* The driver is modelled line by line.  The pool the driver calls into is *)
(* modelled by what Pool(), Pool.map and Pool.__exit__ do for this call:   *)
(* the range is cut into chunks, idle workers take chunks in FIFO order,   *)
(* run fun on every element, and put one message per chunk on the result   *)
(* queue; the result handler stores each message into the map result and   *)
(* wakes the driver when no chunk is left.                                 *)
(*                                                                         *)
(* Strings are sequences of one-character strings, so that str(), join     *)
(* and print are computed and not assumed.                                 *)
(***************************************************************************)
EXTENDS Integers, Sequences, FiniteSets

VARIABLES
    pc,          \* the driver's position in the __main__ block
    cpus,        \* os.cpu_count() of the host: the size of Pool()
    n,           \* the length of the range handed to pool.map
    stdout,      \* the lines printed so far
    pool,        \* the pool's worker processes, by slot
    spawned,     \* the pids of every worker process the pool has started
    taskq,       \* chunk numbers waiting on the pool's task queue (FIFO)
    outq,        \* messages in flight on the pool's result queue
    result,      \* the MapResult of the one pool.map call
    raised,      \* TRUE when pool.map left the with block by an exception
    processes,   \* the driver's variable `processes` after line 10
    ids,         \* the iteration order of set(processes) (line 12)
    executed,    \* history: for each task, the pids that ran fun on it
    faults       \* history: failures injected so far

vars == <<pc, cpus, n, stdout, pool, spawned, taskq, outq, result, raised,
          processes, ids, executed, faults>>

-----------------------------------------------------------------------------
(* Bounds of the model.                                                    *)

\* range(1000000) is replaced by range(n) for every n in 0..MaxTasks
MaxTasks == 5
\* hosts with 1..MaxCpus logical processors
MaxCpus == 4
\* at most this many task exceptions / worker deaths in one run
MaxFaults == 1

\* Process ids the operating system hands out: the k-th process the pool
\* starts gets base + k for one of these bases (9, 10, ... : one and two
\* digits).
PidBases == {8}

\* Python's None, the filler of MapResult._value.  Pids are positive.
None == 0

-----------------------------------------------------------------------------
(* Text.                                                                   *)

StartLine ==
    <<"P", "Y", "T", "H", "O", "N", ":", " ", "s", "t", "a", "r", "t", "i",
      "n", "g", " ", "m", "u", "l", "t", "i", "p", "r", "o", "c", "e", "s",
      "s", "i", "n", "g", " ", "p", "o", "o", "l">>

EndLine ==
    <<"P", "Y", "T", "H", "O", "N", ":", " ", "e", "n", "d", "e", "d", " ",
      "m", "u", "l", "t", "i", "p", "r", "o", "c", "e", "s", "s", "i", "n",
      "g", " ", "p", "o", "o", "l">>

IdsLabel ==
    <<"P", "Y", "T", "H", "O", "N", ":", " ", "p", "r", "o", "c", "e", "s",
      "s", " ", "I", "D", "s", ":", " ">>

Separator == <<",", " ">>

DigitChars == <<"0", "1", "2", "3", "4", "5", "6", "7", "8", "9">>

\* str(k) for an integer k >= 0: its decimal digits
RECURSIVE Str(_)
Str(k) ==
    IF k < 10 THEN <<DigitChars[k + 1]>>
    ELSE Str(k \div 10) \o <<DigitChars[(k % 10) + 1]>>

\* join that also puts the separator after the last element
RECURSIVE JoinTrailing(_, _)
JoinTrailing(sep, strs) ==
    IF strs = <<>> THEN <<>>
    ELSE strs[1] \o sep \o JoinTrailing(sep, Tail(strs))

\* sep.join(strs)
RECURSIVE Join(_, _)
Join(sep, strs) ==
    IF strs = <<>> THEN <<>>
    ELSE IF Len(strs) = 1 THEN strs[1]
    ELSE strs[1] \o sep \o Join(sep, Tail(strs))

\* map(str, xs), consumed by join
MapStr(xs) == [k \in 1..Len(xs) |-> Str(xs[k])]

\* print(a, b): the arguments separated by one space, on one line
Print2(a, b) == a \o <<" ">> \o b

\* the elements of a sequence, as a set: set(xs)
SetOf(xs) == {xs[k] : k \in 1..Len(xs)}

\* the orders in which a set may be iterated
Orderings(S) ==
    {s \in [1..Cardinality(S) -> S] :
        \A a, b \in 1..Cardinality(S) : a # b => s[a] # s[b]}

-----------------------------------------------------------------------------
(* Pool.map: chunking and the map result.                                  *)

\* Pool._map_async: chunksize, extra = divmod(len, len(pool) * 4);
\* one more when extra; 0 for an empty iterable
ChunkSize(len, nworkers) ==
    IF len = 0 THEN 0
    ELSE (len \div (nworkers * 4))
         + (IF len % (nworkers * 4) # 0 THEN 1 ELSE 0)

\* _number_left that counts one chunk for an empty iterable
NumberLeftAtLeastOne(len, chunksize) ==
    IF chunksize <= 0 THEN 1
    ELSE (len \div chunksize) + (IF len % chunksize # 0 THEN 1 ELSE 0)

\* _number_left that forgets the last, shorter chunk
NumberLeftFloor(len, chunksize) ==
    IF chunksize <= 0 THEN 0 ELSE len \div chunksize

\* MapResult.__init__: _number_left
NumberLeft(len, chunksize) ==
    IF chunksize <= 0 THEN 0
    ELSE (len \div chunksize) + (IF len % chunksize # 0 THEN 1 ELSE 0)

\* Pool._get_tasks: the chunks of the range, numbered from 0, in the order
\* they are put on the task queue; none for an empty range
GetTasks(len, chunksize) ==
    IF chunksize <= 0 THEN <<>>
    ELSE [k \in 1..((len + chunksize - 1) \div chunksize) |-> k - 1]

\* Pool._get_tasks and itertools.islice: chunk i holds the elements
\* i*chunksize .. min((i+1)*chunksize, len) - 1 of the range
ChunkItems(i, len, chunksize) ==
    LET lo == i * chunksize
        hi == IF (i + 1) * chunksize < len THEN (i + 1) * chunksize ELSE len
    IN  [k \in 1..(hi - lo) |-> lo + k - 1]

\* a slice assignment that inserts xs at lo and removes nothing
SliceInsert(value, lo, hi, xs) ==
    LET l == IF lo < Len(value) THEN lo ELSE Len(value)
    IN  SubSeq(value, 1, l) \o xs \o SubSeq(value, l + 1, Len(value))

\* value[lo:hi] = xs on a list (Python slice assignment, indices from 0)
SliceAssign(value, lo, hi, xs) ==
    LET l == IF lo < Len(value) THEN lo ELSE Len(value)
        h == IF hi < l THEN l ELSE IF hi < Len(value) THEN hi ELSE Len(value)
    IN  SubSeq(value, 1, l) \o xs \o SubSeq(value, h + 1, Len(value))

\* _set that stores chunk i at index i, not at i * chunksize
SetResultUnscaled(r, i, success, value) ==
    IF success /\ r.success
    THEN [r EXCEPT !.number_left = @ - 1,
                   !.value = SliceAssign(@, i, i + 1, value)]
    ELSE [r EXCEPT !.number_left = @ - 1,
                   !.success = FALSE,
                   !.value = IF r.success THEN <<>> ELSE @]

\* _set that does not count the chunk as done
SetResultNoCount(r, i, success, value) ==
    IF success /\ r.success
    THEN [r EXCEPT !.value = SliceAssign(@, i * r.chunksize,
                                         (i + 1) * r.chunksize, value)]
    ELSE [r EXCEPT !.success = FALSE,
                   !.value = IF r.success THEN <<>> ELSE @]

\* MapResult._set(i, (success, value))
SetResult(r, i, success, value) ==
    IF success /\ r.success
    THEN [r EXCEPT !.number_left = @ - 1,
                   !.value = SliceAssign(@, i * r.chunksize,
                                         (i + 1) * r.chunksize, value)]
    ELSE [r EXCEPT !.number_left = @ - 1,
                   !.success = FALSE,
                   !.value = IF r.success THEN <<>> ELSE @]

\* a task function that returns its argument
funArg(x, w) == x

\* fun(x), run in worker slot w: os.getpid()
fun(x, w) == pool[w].pid

NoResult == [number_left |-> 0, success |-> TRUE, value |-> <<>>, chunksize |-> 0]

\* a worker process just started: it has taken no chunk yet
Started(pid) == [pid |-> pid, alive |-> TRUE, fresh |-> TRUE]

-----------------------------------------------------------------------------
(* The state after the interpreter has loaded the module.                  *)

Init ==
    /\ pc = "start"
    /\ cpus \in 1..MaxCpus
    /\ n \in 0..MaxTasks
    /\ stdout = <<>>
    /\ pool = <<>>
    /\ spawned = {}
    /\ taskq = <<>>
    /\ outq = {}
    /\ result = NoResult
    /\ raised = FALSE
    /\ processes = <<>>
    /\ ids = <<>>
    /\ executed = [x \in 0..(n - 1) |-> <<>>]
    /\ faults = 0

-----------------------------------------------------------------------------
(* The driver.                                                             *)

\* line 8: print("PYTHON: starting multiprocessing pool")
PrintStart ==
    /\ pc = "start"
    /\ stdout' = Append(stdout, StartLine)
    /\ pc' = "pool"
    /\ UNCHANGED <<cpus, n, pool, spawned, taskq, outq, result, raised,
                   processes, ids, executed, faults>>

\* line 9: with multiprocessing.Pool() as pool -- os.cpu_count() workers
PoolEnter ==
    /\ pc = "pool"
    /\ \E base \in PidBases :
          /\ pool' = [w \in 1..cpus |-> Started(base + w)]
          /\ spawned' = {base + w : w \in 1..cpus}
    /\ pc' = "map"
    /\ UNCHANGED <<cpus, n, stdout, taskq, outq, result, raised,
                   processes, ids, executed, faults>>

\* line 10: pool.map(fun, range(n)) -- submit every chunk, then wait
MapSubmit ==
    /\ pc = "map"
    /\ LET cs == ChunkSize(n, Len(pool))
           nl == NumberLeft(n, cs)
       IN  /\ result' = [number_left |-> nl, success |-> TRUE,
                         value |-> [k \in 1..n |-> None], chunksize |-> cs]
           /\ taskq' = GetTasks(n, cs)
    /\ pc' = "wait"
    /\ UNCHANGED <<cpus, n, stdout, pool, spawned, outq, raised,
                   processes, ids, executed, faults>>

\* line 10: MapResult.get() returns the value once no chunk is left
MapReturn ==
    /\ pc = "wait"
    /\ result.number_left = 0
    /\ result.success
    /\ processes' = result.value
    /\ pc' = "exit"
    /\ UNCHANGED <<cpus, n, stdout, pool, spawned, taskq, outq, result,
                   raised, ids, executed, faults>>

\* line 10: MapResult.get() re-raises the first exception a task raised
MapRaise ==
    /\ pc = "wait"
    /\ result.number_left = 0
    /\ ~result.success
    /\ raised' = TRUE
    /\ pc' = "exit"
    /\ UNCHANGED <<cpus, n, stdout, pool, spawned, taskq, outq, result,
                   processes, ids, executed, faults>>

\* leaving the pool without terminating its workers
Close(p) == p

\* Pool.terminate(): every worker process is terminated and joined
Terminate(p) == [w \in DOMAIN p |-> [p[w] EXCEPT !.alive = FALSE]]

\* lines 9-10: leaving the with block runs Pool.__exit__, i.e. terminate();
\* a pending exception then ends the program with a traceback on stderr
PoolExit ==
    /\ pc = "exit"
    /\ pool' = Terminate(pool)
    /\ taskq' = <<>>
    /\ outq' = {}
    /\ pc' = IF raised THEN "aborted" ELSE "end"
    /\ UNCHANGED <<cpus, n, stdout, spawned, result, raised, processes,
                   ids, executed, faults>>

\* line 11 without its print
PrintEndMissing ==
    /\ pc = "end"
    /\ pc' = "set"
    /\ UNCHANGED <<cpus, n, stdout, pool, spawned, taskq, outq, result,
                   raised, processes, ids, executed, faults>>

\* line 11: print("PYTHON: ended multiprocessing pool")
PrintEnd ==
    /\ pc = "end"
    /\ stdout' = Append(stdout, EndLine)
    /\ pc' = "set"
    /\ UNCHANGED <<cpus, n, pool, spawned, taskq, outq, result, raised,
                   processes, ids, executed, faults>>

\* line 12: processes = map(str, set(processes)) -- the set is built now,
\* in an iteration order the program does not choose
MakeSet ==
    /\ pc = "set"
    /\ \E order \in Orderings(SetOf(processes)) : ids' = order
    /\ pc' = "ids"
    /\ UNCHANGED <<cpus, n, stdout, pool, spawned, taskq, outq, result,
                   raised, processes, executed, faults>>

\* line 13: print("PYTHON: process IDs: ", ", ".join(processes))
PrintIds ==
    /\ pc = "ids"
    /\ stdout' = Append(stdout, Print2(IdsLabel, Join(Separator, MapStr(ids))))
    /\ pc' = "done"
    /\ UNCHANGED <<cpus, n, pool, spawned, taskq, outq, result, raised,
                   processes, ids, executed, faults>>

-----------------------------------------------------------------------------
(* The pool's worker processes and its handler threads.                    *)

Running == pc = "wait"

\* Worker processes that have taken no chunk yet are interchangeable, so
\* of these only the one in the lowest slot is followed.
FirstFresh(w) == \A v \in 1..(w - 1) : ~(pool[v].alive /\ pool[v].fresh)

\* the worker in slot w is waiting on the task queue and a chunk is there
CanTake(w) ==
    /\ Running
    /\ pool[w].alive
    /\ pool[w].fresh => FirstFresh(w)
    /\ taskq # <<>>

\* the elements of the chunk at the head of the task queue
Items == ChunkItems(Head(taskq), n, result.chunksize)

\* fun has been called on the first k elements xs[1..k] by worker slot w
Ran(xs, k, w) ==
    [x \in DOMAIN executed |->
        IF \E j \in 1..k : xs[j] = x THEN Append(executed[x], pool[w].pid)
        ELSE executed[x]]

\* mapstar(args) in worker slot w: list(map(fun, chunk))
mapstar(xs, w) == [j \in 1..Len(xs) |-> fun(xs[j], w)]

\* One turn of the worker loop: the worker receives the next chunk, runs
\* fun on every element and puts (job, i, (True, list)) on the result
\* queue.  Between the get and the put the worker touches nothing another
\* process reads, so the turn is one step; results of different workers
\* still reach the driver in any order, through outq.
Work(w) ==
    /\ CanTake(w)
    /\ taskq' = Tail(taskq)
    /\ outq' = outq \cup {[i |-> Head(taskq), success |-> TRUE,
                           value |-> mapstar(Items, w)]}
    /\ executed' = Ran(Items, Len(Items), w)
    /\ pool' = [pool EXCEPT ![w].fresh = FALSE]
    /\ UNCHANGED <<pc, cpus, n, stdout, spawned, result, raised,
                   processes, ids, faults>>

\* one turn of the worker loop in which fun raises (MemoryError, say)
\* after k elements of the chunk: the worker catches the exception, drops
\* the rest of the chunk and puts (job, i, (False, exc))
Raise(w) ==
    /\ CanTake(w)
    /\ faults < MaxFaults
    /\ taskq' = Tail(taskq)
    /\ \E k \in 0..(Len(Items) - 1) : executed' = Ran(Items, k, w)
    /\ outq' = outq \cup {[i |-> Head(taskq), success |-> FALSE,
                           value |-> <<>>]}
    /\ pool' = [pool EXCEPT ![w].fresh = FALSE]
    /\ faults' = faults + 1
    /\ UNCHANGED <<pc, cpus, n, stdout, spawned, result, raised,
                   processes, ids>>

\* one turn of the worker loop in which the worker process dies after k
\* elements of the chunk (killed by the kernel, say): nothing is put on
\* the result queue for that chunk
Crash(w) ==
    /\ CanTake(w)
    /\ faults < MaxFaults
    /\ taskq' = Tail(taskq)
    /\ \E k \in 0..(Len(Items) - 1) : executed' = Ran(Items, k, w)
    /\ pool' = [pool EXCEPT ![w].alive = FALSE, ![w].fresh = FALSE]
    /\ faults' = faults + 1
    /\ UNCHANGED <<pc, cpus, n, stdout, spawned, outq, result, raised,
                   processes, ids>>

\* a pid the operating system has not handed to this pool yet
FreshPid == (CHOOSE p \in spawned : \A q \in spawned : q <= p) + 1

\* Pool._maintain_pool: an exited worker is joined and replaced by a new
\* process
Repopulate(w) ==
    /\ Running
    /\ ~pool[w].alive
    /\ pool' = [pool EXCEPT ![w] = Started(FreshPid)]
    /\ spawned' = spawned \cup {FreshPid}
    /\ UNCHANGED <<pc, cpus, n, stdout, taskq, outq, result, raised,
                   processes, ids, executed, faults>>

\* Pool._handle_results: the next message is stored into the map result
HandleResult ==
    /\ Running
    /\ \E m \in outq :
          /\ result' = SetResult(result, m.i, m.success, m.value)
          /\ outq' = outq \ {m}
    /\ UNCHANGED <<pc, cpus, n, stdout, pool, spawned, taskq, raised,
                   processes, ids, executed, faults>>

-----------------------------------------------------------------------------

\* the driver, the worker processes and the result handler, as long as
\* nothing fails
NoFault ==
    \/ PrintStart
    \/ PoolEnter
    \/ MapSubmit
    \/ MapReturn
    \/ PoolExit
    \/ PrintEnd
    \/ MakeSet
    \/ PrintIds
    \/ HandleResult
    \/ \E w \in DOMAIN pool : Work(w)

\* a failure in a worker, and what the pool and the driver do about it
Fault ==
    \/ \E w \in DOMAIN pool : Raise(w)
    \/ \E w \in DOMAIN pool : Crash(w)
    \/ \E w \in DOMAIN pool : Repopulate(w)
    \/ MapRaise

Next == NoFault \/ Fault

Spec == Init /\ [][Next]_vars

\* The runs in which no worker fails, under fair scheduling: a process or
\* thread that can take a step eventually takes one.
FaultFreeSpec == Init /\ [][NoFault]_vars /\ WF_vars(NoFault)

-----------------------------------------------------------------------------
(* Vocabulary of the properties.                                           *)

\* pool.map has returned and `processes` holds its value
Returned == (pc = "exit" /\ ~raised) \/ pc \in {"end", "set", "ids", "done"}

\* the with block has been left
Left == pc \in {"end", "set", "ids", "done", "aborted"}

\* the three states of the driver: 1 pool not yet created, 2 pool created
\* and tasks running, 3 pool torn down
Phase ==
    IF pc \in {"start", "pool"} THEN 1
    ELSE IF pc \in {"map", "wait", "exit"} THEN 2
    ELSE 3

\* decimal notation, digit by digit from the most significant
Pow10(e) == CASE e = 0 -> 1 [] e = 1 -> 10 [] e = 2 -> 100 [] e = 3 -> 1000
              [] OTHER -> 10000
Width(k) == IF k < 10 THEN 1 ELSE IF k < 100 THEN 2 ELSE IF k < 1000 THEN 3
            ELSE IF k < 10000 THEN 4 ELSE 5
Decimal(k) ==
    [j \in 1..Width(k) |-> DigitChars[((k \div Pow10(Width(k) - j)) % 10) + 1]]

\* "a, b, c" built from the left
RECURSIVE Listing(_)
Listing(xs) ==
    IF xs = <<>> THEN <<>>
    ELSE IF Len(xs) = 1 THEN Decimal(xs[1])
    ELSE Listing(SubSeq(xs, 1, Len(xs) - 1)) \o <<",", " ">>
         \o Decimal(xs[Len(xs)])

IsPrefix(a, b) == Len(a) <= Len(b) /\ SubSeq(b, 1, Len(a)) = a

-----------------------------------------------------------------------------
\* C1: when pool.map has returned, the result collection has exactly n
\* elements, one per element of range(n).
C1_ResultLength == Returned => Len(processes) = n

\* a completed run whose range was cut into chunks of more than one task
C1_Witness == pc = "done" /\ result.chunksize > 1 /\ Len(processes) = n

\* C2: when pool.map has returned, position x of the result holds the pid
\* of the one worker that ran fun on task x; at no time has a task been
\* run twice.
C2_Correspondence ==
    /\ \A x \in DOMAIN executed : Len(executed[x]) <= 1
    /\ Returned =>
          /\ DOMAIN processes = 1..n
          /\ \A x \in 0..(n - 1) : executed[x] = <<processes[x + 1]>>

\* a completed run in which two workers took turns
C2_Witness ==
    /\ pc = "done"
    /\ n >= 3
    /\ processes[1] # processes[2]
    /\ processes[1] = processes[3]

\* C3: when pool.map has returned on a non-empty range, the distinct
\* values of the result number at least 1 and at most the number of worker
\* processes of the pool, and every element is a positive integer that is
\* the pid of a worker of the pool.
C3_DistinctIds ==
    (Returned /\ n >= 1) =>
        /\ Cardinality(SetOf(processes)) >= 1
        /\ Cardinality(SetOf(processes)) <= Len(pool)
        /\ \A k \in 1..Len(processes) :
              /\ processes[k] \in Nat
              /\ processes[k] > 0
              /\ processes[k] \in spawned

\* a completed run in which every worker of a pool of several ran a task
C3_Witness ==
    /\ pc = "done"
    /\ Len(pool) > 1
    /\ Cardinality(SetOf(processes)) = Len(pool)

\* C4: standard output grows in one fixed order: nothing before line 8;
\* the start line alone from line 8 until the with block has been left
\* (so it is printed before any task is submitted); the start and end
\* lines once every result is collected; and in a completed run exactly
\* three lines, the third being the label followed by the listing of ids.
C4_ThreeLines ==
    /\ pc = "start" => stdout = <<>>
    /\ pc \in {"pool", "map", "wait", "exit", "end", "aborted"}
          => stdout = <<StartLine>>
    /\ pc \in {"set", "ids"} => stdout = <<StartLine, EndLine>> /\ Returned
    /\ pc = "done" =>
          /\ Len(stdout) = 3
          /\ stdout[1] = StartLine
          /\ stdout[2] = EndLine
          /\ IsPrefix(IdsLabel, stdout[3])
          /\ \E order \in Orderings(SetOf(processes)) :
                SubSeq(stdout[3], Len(IdsLabel) + 2, Len(stdout[3]))
                    = Listing(order)

\* a completed run that has printed its three lines
C4_Witness == pc = "done" /\ Len(stdout) = 3 /\ Len(ids) >= 2

\* C5: once the with block has been left, normally or by an exception, no
\* worker process of the pool is alive.
C5_TornDown == Left => \A w \in DOMAIN pool : ~pool[w].alive

\* a run a task exception has aborted, its pool torn down
C5_Witness ==
    /\ pc = "aborted"
    /\ faults > 0
    /\ \A w \in DOMAIN pool : ~pool[w].alive

\* C6: on an empty range pool.map returns at once with an empty result,
\* the set of distinct ids is empty, and the last line is the label, the
\* space print puts between its arguments, and an empty joined string.
C6_EmptyRange ==
    n = 0 =>
        /\ pc = "wait" => (result.number_left = 0 /\ result.success)
        /\ Returned => processes = <<>>
        /\ pc \in {"ids", "done"} => ids = <<>>
        /\ pc = "done" => stdout[3] = IdsLabel \o <<" ">>

\* a completed run on the empty range
C6_Witness == n = 0 /\ pc = "done" /\ Len(stdout) = 3

\* C7: when pool.map has returned, no chunk is waiting, no result is in
\* flight, and fun has run on every task.
C7_MapBlocks ==
    Returned =>
        /\ taskq = <<>>
        /\ outq = {}
        /\ result.number_left = 0
        /\ \A x \in 0..(n - 1) : Len(executed[x]) = 1

\* pool.map has just returned on a range of several chunks
C7_Witness == pc = "exit" /\ ~raised /\ n >= 2 /\ Len(processes) = n

\* C8 as stated: on a host with 4 logical processors a completed run has
\* printed the start line, the end line, and the label followed directly
\* by four distinct worker ids joined by ", ".
C8_FourIds ==
    (Len(pool) = 4 /\ n >= 4 /\ pc = "done") =>
        /\ stdout[1] = StartLine
        /\ stdout[2] = EndLine
        /\ Cardinality(SetOf(processes)) = 4
        /\ \E order \in Orderings(SetOf(processes)) :
              stdout[3] = IdsLabel \o Listing(order)

\* C8, amended: on a host with 4 logical processors a completed run on a
\* non-empty range has printed the start line, the end line, and the label
\* (which ends in a space), the space print puts between its arguments, and
\* between one and four distinct worker ids joined by ", ".
C8_UpToFourIds ==
    (Len(pool) = 4 /\ n >= 1 /\ pc = "done") =>
        /\ stdout[1] = StartLine
        /\ stdout[2] = EndLine
        /\ Cardinality(SetOf(processes)) \in 1..4
        /\ SetOf(processes) \subseteq spawned
        /\ \E order \in Orderings(SetOf(processes)) :
              stdout[3] = IdsLabel \o <<" ">> \o Listing(order)

\* a completed run on 4 processors in which all four workers ran a task
C8_Witness ==
    /\ pc = "done"
    /\ Len(pool) = 4
    /\ Cardinality(SetOf(processes)) = 4
    /\ Len(stdout) = 3

\* C9: a run in which a worker has failed comes to rest only aborted: with
\* the exception raised in the driver, no result collection, and nothing
\* but the start line printed.
C9_FailureAborts ==
    (faults > 0 /\ ~ENABLED Next) =>
        /\ pc = "aborted"
        /\ raised
        /\ processes = <<>>
        /\ stdout = <<StartLine>>

\* C10: under fair scheduling a run in which no worker fails goes through
\* the three states in order, one at a time, and ends with the ids line
\* printed.
C10_Terminates ==
    /\ [][Phase' = Phase \/ Phase' = Phase + 1]_vars
    /\ <>(pc = "done" /\ Len(stdout) = 3)

\* a run without failure that has ended
C10_Witness == pc = "done" /\ faults = 0 /\ n >= 1 /\ Phase = 3

====
